---- MODULE Spec2Model ----
(***************************************************************************)
(* The in-process caches of futile: ClockCache and ExpiringClockCache      *)
(* (futile/cache.py) and ExpiringCache (futile/cache/expiring_cache.py).   *)
(* Every call is one atomic step (a sequential caller); `last` records the *)
(* call that was made last and how it ended.                               *)
(***************************************************************************)
EXTENDS Integers, Sequences, FiniteSets, TLC

\* ---------------------------------------------------------------- bounds
MaxSize == 2          \* largest `size` a cache is constructed with
MaxLookups == 2       \* get is not called once lookups has reached this
MaxEvictions == 1     \* put is not called once evictions has reached this
MaxTime == 3          \* the clock stops here
MaxTimeout == 2       \* largest timeout a caller passes
MaxSweepSize == 4     \* largest `size` the loop of put is stepped through with
MaxThreadSize == 1    \* largest `size` of a cache shared by the threads
MaxThreadLookups == 1    \* no thread reads a counter of get that has reached this
MaxRacedLookups == 2     \* the same, in the runs that race the counters of get
MaxThreadEvictions == 1  \* no thread enters put once evictions has reached this
MaxRingSize == 6       \* largest `size` of the caches whose puts are stepped through
MaxRingEvictions == 2  \* no stepped put begins once evictions has reached this
MaxMessages == 2       \* messages the broker delivers to one pipeline
MaxQueue == 1          \* capacity the thread queue of a pipeline is modelled with
MaxConnections == 3    \* largest max_connections a pool is built with
MaxCapacity == 2       \* largest capacity a token bucket is built with
MaxRate == 2           \* largest refill rate (tokens per second) of a token bucket
TicksPerSecond == 2    \* resolution of the clock a token bucket is driven with
MaxTicks == 4          \* ticks the clock advances after a token bucket is built

\* ------------------------------------------------------------ input sets
Keys == {"a", "b", "c"}
\* The values a caller stores under each key: two per key.
ValsFor(key) == IF key = "a" THEN {1, 2} ELSE IF key = "b" THEN {2, 3} ELSE {3, 1}
None == 0                     \* the default of get's `default` parameter
DefaultArgs == {None, -1}     \* what a caller passes as `default`
MARKER == "_MARKER"           \* the module's _MARKER sentinel

VARIABLES
    size,         \* self.size
    hand,         \* self.hand
    clock_keys,   \* self.clock_keys : position -> key or MARKER
    clock_refs,   \* self.clock_refs : position -> BOOLEAN
    data,         \* self.data : key -> [pos, val]
    evictions, hits, misses, lookups,
    last,         \* the last call: [op, key, val, ret, raised]
    gets, found,  \* calls of get since the last clear, and those that found the key
    scenario,     \* how many leading calls of Scenario were made since construction
    timeout,      \* ExpiringClockCache: self.timeout
    now,          \* time.time()
    cache,        \* ExpiringCache: self._cache : key -> [expire_time, value]
    default_timeout,  \* ExpiringCache: self._default_timeout
    sweep,        \* the locals of one put running alone, loop iteration by iteration
    lock,         \* self.lock: the thread holding it, or Free
    thr,          \* per thread: the call it is in, its position and its locals
    consumer,     \* amqp.py: the AmqpConsumer pipeline, its thread queue and workers
    pool,         \* connection_pool.py: the ConnectionPool and its callers
    bucket        \* rate_limit/token_bucket.py: the TokenBucket

vars == <<size, hand, clock_keys, clock_refs, data, evictions, hits, misses,
          lookups, last, gets, found, scenario, timeout, now, cache,
          default_timeout, sweep, lock, thr, consumer, pool, bucket>>

\* The fields of the two clock caches, and those of ExpiringCache.
clockVars == <<size, hand, clock_keys, clock_refs, data, evictions, hits, misses,
               lookups, gets, found, scenario, timeout>>
expiringVars == <<cache, default_timeout>>
\* The variables of the step-by-step specifications.
otherVars == <<consumer, pool, bucket>>
stepVars == <<sweep, lock, thr, otherVars>>

Threads == {"t1", "t2"}
Free == "free"

\* A thread that is in no call.
IdleThread ==
    [op |-> "none", pc |-> "idle", key |-> "", arg |-> None, pos |-> 0, tmp |-> 0,
     hand |-> 0, count |-> 0, ret |-> None, raised |-> FALSE]

\* No put is being stepped through and no thread is in a call.
SweepIdle ==
    [pc |-> "idle", hand |-> 0, count |-> 0, visits |-> [p \in {} |-> 0],
     forced |-> FALSE, refs0 |-> [p \in {} |-> FALSE]]
\* No pipeline, pool or bucket has been made.
NoConsumer ==
    [consuming |-> FALSE, delivered |-> 0, pending |-> 0, thread_queue |-> <<>>,
     acked |-> {}, outcome |-> <<>>, workers |-> <<>>]
NoPool == [max_connections |-> 0, pool |-> <<>>, connections |-> 0, callers |-> <<>>]
NoBucket ==
    [capacity |-> 0, rate |-> 0, tokens |-> 0, last_run_time |-> 0,
     asked |-> [count |-> 0, short |-> 0, at |-> 0]]
OthersIdle == consumer = NoConsumer /\ pool = NoPool /\ bucket = NoBucket

StepIdle ==
    /\ OthersIdle
    /\ sweep = SweepIdle
    /\ lock = Free
    /\ thr = [t \in Threads |-> IdleThread]

\* --------------------------------------------------------------- dict ops
EmptyDict == [k \in {} |-> None]

\* dict.pop(key, _MARKER): the dict without key
DictPop(d, key) == [k \in (DOMAIN d) \ {key} |-> d[k]]

\* d[key] = entry
DictSet(d, key, entry) ==
    [k \in (DOMAIN d) \cup {key} |-> IF k = key THEN entry ELSE d[k]]

Call(op, key, val, ret, raised) ==
    [op |-> op, key |-> key, val |-> val, ret |-> ret, raised |-> raised]

\* The calls of the eviction scenario, in order.
Scenario ==
    << <<"put", "a", 1>>, <<"put", "b", 2>>, <<"get", "a", None>>, <<"put", "c", 3>> >>

Advance(call) ==
    IF /\ scenario >= 0
       /\ scenario < Len(Scenario)
       /\ <<call.op, call.key, call.val>> = Scenario[scenario + 1]
    THEN scenario + 1 ELSE -1

\* ----------------------------------------------------------- ClockCache
\* clear(): the state it leaves, for a cache of n slots
ClearedKeys(n) == [i \in 0..(n - 1) |-> MARKER]
ClearedRefs(n) == [i \in 0..(n - 1) |-> FALSE]

Init ==
    /\ size \in 1..MaxSize
    /\ hand = 0
    /\ clock_keys = ClearedKeys(size)
    /\ clock_refs = ClearedRefs(size)
    /\ data = EmptyDict
    /\ evictions = 0 /\ hits = 0 /\ misses = 0 /\ lookups = 0
    /\ last = Call("init", "", None, None, FALSE)
    /\ gets = 0 /\ found = 0
    /\ scenario = 0
    /\ timeout = None /\ now = 0
    /\ cache = EmptyDict /\ default_timeout = None
    /\ StepIdle

\* Mutant of Clear: the statistics survive.
ClearKeepStats ==
    /\ hand' = 0
    /\ clock_keys' = ClearedKeys(size)
    /\ clock_refs' = ClearedRefs(size)
    /\ data' = EmptyDict
    /\ last' = Call("clear", "", None, None, FALSE)
    /\ gets' = 0 /\ found' = 0
    /\ scenario' = -1
    /\ UNCHANGED <<size, evictions, hits, misses, lookups, timeout, now, expiringVars, stepVars>>

Clear ==
    /\ hand' = 0
    /\ clock_keys' = ClearedKeys(size)
    /\ clock_refs' = ClearedRefs(size)
    /\ data' = EmptyDict
    /\ evictions' = 0 /\ hits' = 0 /\ misses' = 0 /\ lookups' = 0
    /\ last' = Call("clear", "", None, None, FALSE)
    /\ gets' = 0 /\ found' = 0
    /\ scenario' = -1
    /\ UNCHANGED <<size, timeout, now, expiringVars, stepVars>>

\* Mutant of CountMiss: a miss is not counted.
CountMissSkipped(m) == m

\* self.misses += 1
CountMiss(m) == m + 1

\* What get(key, default) returns from dict d.
GetValue(d, key, default) == IF key \in DOMAIN d THEN d[key].val ELSE default

Get(key, default) ==
    /\ lookups < MaxLookups
    /\ lookups' = lookups + 1
    /\ IF key \in DOMAIN data
       THEN /\ hits' = hits + 1
            /\ misses' = misses
            /\ clock_refs' = [clock_refs EXCEPT ![data[key].pos] = TRUE]
       ELSE /\ misses' = CountMiss(misses)
            /\ hits' = hits
            /\ clock_refs' = clock_refs
    /\ last' = Call("get", key, default, GetValue(data, key, default), FALSE)
    /\ gets' = gets + 1
    /\ found' = found + (IF key \in DOMAIN data THEN 1 ELSE 0)
    /\ scenario' = Advance(last')
    /\ UNCHANGED <<size, hand, clock_keys, data, evictions, timeout, now, expiringVars, stepVars>>

\* Mutant of ClearRef: the bit of a swept slot is left set.
ClearRefSkipped(refs, h) == refs

\* self.clock_refs[hand] = False
ClearRef(refs, h) == [refs EXCEPT ![h] = FALSE]

\* Mutant of ForceClear: the tie-breaker on every swept slot.
ForceClearAlways(count, n) == TRUE

\* Mutant of ForceClear: the tie-breaker only after strictly more than size / 2.
ForceClearStrict(count, n) == 2 * count > n

\* `count >= max_count` with max_count = self.size / 2 (true division)
ForceClear(count, n) == 2 * count >= n

\* Mutant of NextHand: the hand is advanced without wrapping.
NextHandNoWrap(h, n) == h + 1

\* hand = (hand + 1) % self.size
NextHand(h, n) == (h + 1) % n

\* The while loop of put up to the slot it settles on: the reference bits it
\* leaves, the position found and the number of slots swept.
RECURSIVE Sweep(_, _, _, _)
Sweep(refs, h, count, n) ==
    IF refs[h]
    THEN LET r1 == ClearRef(refs, h)
             h1 == NextHand(h, n)
             c1 == count + 1
             r2 == IF ForceClear(c1, n) THEN ClearRef(r1, h1) ELSE r1
         IN  Sweep(r2, h1, c1, n)
    ELSE [refs |-> refs, hand |-> h, count |-> count]

\* Mutant of Resident: the update-in-place test never succeeds.
ResidentNever(d, key) == FALSE

\* entry = self.data.get(key); entry is not None
Resident(d, key) == key \in DOMAIN d

\* Mutant of EvictOld: the slot's old key stays in the dict.
EvictOldKeep(d, old_key) == d

\* old_entry = self.data.pop(old_key, _MARKER)
EvictOld(d, old_key) == DictPop(d, old_key)

\* Mutant of Evicted: every install counts as an eviction.
EvictedAlways(d, old_key) == TRUE

\* old_entry is not _MARKER
Evicted(d, old_key) == old_key \in DOMAIN d

Put(key, val) ==
    /\ evictions < MaxEvictions
    /\ IF Resident(data, key)
       THEN \* `data[key] = pos, val`: neither name is bound, NameError
            /\ last' = Call("put", key, val, None, TRUE)
            /\ UNCHANGED <<hand, clock_keys, clock_refs, data, evictions>>
       ELSE LET s == Sweep(clock_refs, hand, 0, size)
                old_key == clock_keys[s.hand]
            IN  /\ evictions' = evictions + (IF Evicted(data, old_key) THEN 1 ELSE 0)
                /\ clock_keys' = [clock_keys EXCEPT ![s.hand] = key]
                /\ clock_refs' = [s.refs EXCEPT ![s.hand] = TRUE]
                /\ data' = DictSet(EvictOld(data, old_key), key,
                                   [pos |-> s.hand, val |-> val])
                /\ hand' = NextHand(s.hand, size)
                /\ last' = Call("put", key, val, None, FALSE)
    /\ scenario' = Advance(last')
    /\ UNCHANGED <<size, hits, misses, lookups, gets, found, timeout, now, expiringVars, stepVars>>

\* Mutant of InvalidatePop: the entry is read, not removed.
InvalidateKeep(d, key) == d

\* entry = self.data.pop(key, _MARKER)
InvalidatePop(d, key) == DictPop(d, key)

Invalidate(key) ==
    /\ data' = InvalidatePop(data, key)
    /\ clock_refs' = IF key \in DOMAIN data
                     THEN [clock_refs EXCEPT ![data[key].pos] = FALSE]
                     ELSE clock_refs
    /\ last' = Call("invalidate", key, None, None, FALSE)
    /\ scenario' = -1
    /\ UNCHANGED <<size, hand, clock_keys, evictions, hits, misses, lookups,
                   gets, found, timeout, now, expiringVars, stepVars>>

Next ==
    \/ Clear
    \/ \E key \in Keys, default \in DefaultArgs : Get(key, default)
    \/ \E key \in Keys : \E val \in ValsFor(key) : Put(key, val)
    \/ \E key \in Keys : Invalidate(key)

Spec == Init /\ [][Next]_vars

\* --------------------------------------------------- ExpiringClockCache
\* cache.py never imports `time`: evaluating time.time() raises NameError.
InitExpiringClock ==
    /\ size \in 1..MaxSize
    /\ timeout \in 1..MaxTimeout
    /\ hand = 0
    /\ clock_keys = ClearedKeys(size)
    /\ clock_refs = ClearedRefs(size)
    /\ data = EmptyDict
    /\ evictions = 0 /\ hits = 0 /\ misses = 0 /\ lookups = 0
    /\ last = Call("init", "", None, None, FALSE)
    /\ gets = 0 /\ found = 0
    /\ scenario = -1
    /\ now = 0
    /\ cache = EmptyDict /\ default_timeout = None
    /\ StepIdle

ExpiringClockClear ==
    /\ hand' = 0
    /\ clock_keys' = ClearedKeys(size)
    /\ clock_refs' = ClearedRefs(size)
    /\ data' = EmptyDict
    /\ evictions' = 0 /\ hits' = 0 /\ misses' = 0 /\ lookups' = 0
    /\ last' = Call("clear", "", None, None, FALSE)
    /\ gets' = 0 /\ found' = 0
    /\ UNCHANGED <<size, scenario, timeout, now, expiringVars, stepVars>>

ExpiringClockGet(key, default) ==
    /\ lookups < MaxLookups
    /\ lookups' = lookups + 1
    /\ IF key \in DOMAIN data
       THEN \* `ttl > time.time()`: NameError before either branch
            /\ last' = Call("get", key, default, None, TRUE)
            /\ UNCHANGED <<hits, misses, clock_refs>>
       ELSE /\ misses' = CountMiss(misses)
            /\ last' = Call("get", key, default, default, FALSE)
            /\ UNCHANGED <<hits, clock_refs>>
    /\ gets' = gets + 1
    /\ found' = found + (IF key \in DOMAIN data THEN 1 ELSE 0)
    /\ UNCHANGED <<size, hand, clock_keys, data, evictions, scenario, timeout, now,
                   expiringVars, stepVars>>

ExpiringClockPut(key, val) ==
    /\ IF Resident(data, key)
       THEN \* `data[key] = pos, val, ...`: NameError
            UNCHANGED <<clock_keys, clock_refs, data, evictions>>
       ELSE LET s == Sweep(clock_refs, hand, 0, size)
                old_key == clock_keys[s.hand]
            IN  \* the slot is relabelled and referenced, then the right-hand side
                \* of `self.data[key] = hand, val, time.time() + self.timeout`
                \* raises NameError: no entry is stored, self.hand is not set
                /\ evictions' = evictions + (IF Evicted(data, old_key) THEN 1 ELSE 0)
                /\ clock_keys' = [clock_keys EXCEPT ![s.hand] = key]
                /\ clock_refs' = [s.refs EXCEPT ![s.hand] = TRUE]
                /\ data' = EvictOld(data, old_key)
    /\ last' = Call("put", key, val, None, TRUE)
    /\ UNCHANGED <<size, hand, hits, misses, lookups, gets, found, scenario, timeout,
                   now, expiringVars, stepVars>>

ExpiringClockInvalidate(key) ==
    /\ data' = InvalidatePop(data, key)
    /\ clock_refs' = IF key \in DOMAIN data
                     THEN [clock_refs EXCEPT ![data[key].pos] = FALSE]
                     ELSE clock_refs
    /\ last' = Call("invalidate", key, None, None, FALSE)
    /\ UNCHANGED <<size, hand, clock_keys, evictions, hits, misses, lookups,
                   gets, found, scenario, timeout, now, expiringVars, stepVars>>

NextExpiringClock ==
    \/ ExpiringClockClear
    \/ \E key \in Keys, default \in DefaultArgs : ExpiringClockGet(key, default)
    \/ \E key \in Keys : \E val \in ValsFor(key) : ExpiringClockPut(key, val)
    \/ \E key \in Keys : ExpiringClockInvalidate(key)

SpecExpiringClock == InitExpiringClock /\ [][NextExpiringClock]_vars

\* -------------------------------------------------------- ExpiringCache
InitExpiring ==
    /\ cache = EmptyDict
    /\ default_timeout \in 1..MaxTimeout
    /\ now = 0
    /\ last = Call("init", "", None, None, FALSE)
    /\ size = 0 /\ hand = 0
    /\ clock_keys = ClearedKeys(0) /\ clock_refs = ClearedRefs(0)
    /\ data = EmptyDict
    /\ evictions = 0 /\ hits = 0 /\ misses = 0 /\ lookups = 0
    /\ gets = 0 /\ found = 0 /\ scenario = -1 /\ timeout = None
    /\ StepIdle

\* time.time() grows between calls
Tick ==
    /\ now < MaxTime
    /\ now' = now + 1
    /\ UNCHANGED <<clockVars, stepVars, expiringVars, last>>

ExpiringClear ==
    /\ cache' = EmptyDict
    /\ last' = Call("clear", "", None, None, FALSE)
    /\ UNCHANGED <<clockVars, stepVars, default_timeout, now>>

\* expire_time < time.time()
Expired(expire_time, t) == expire_time < t

\* What ExpiringCache.get(key, default) returns from dict c at time t.
ExpiringGetValue(c, key, default, t) ==
    IF key \notin DOMAIN c THEN default
    ELSE IF Expired(c[key].expire_time, t) THEN default
    ELSE c[key].value

ExpiringGet(key, default) ==
    /\ last' = Call("get", key, default, ExpiringGetValue(cache, key, default, now),
                    FALSE)
    /\ UNCHANGED <<clockVars, stepVars, expiringVars, now>>

\* put(key, val, timeout); t = None stands for an omitted timeout
ExpiringPut(key, val, t) ==
    /\ cache' = DictSet(cache, key,
                        [expire_time |-> now + (IF t = None THEN default_timeout ELSE t),
                         value |-> val])
    /\ last' = Call("put", key, val, None, FALSE)
    /\ UNCHANGED <<clockVars, stepVars, default_timeout, now>>

ExpiringInvalidate(key) ==
    /\ cache' = DictPop(cache, key)
    /\ last' = Call("invalidate", key, None, None, FALSE)
    /\ UNCHANGED <<clockVars, stepVars, default_timeout, now>>

NextExpiring ==
    \/ Tick
    \/ ExpiringClear
    \/ \E key \in Keys, default \in DefaultArgs : ExpiringGet(key, default)
    \/ \E key \in Keys : \E val \in ValsFor(key), t \in {None} \cup (1..MaxTimeout) :
           ExpiringPut(key, val, t)
    \/ \E key \in Keys : ExpiringInvalidate(key)

SpecExpiring == InitExpiring /\ [][NextExpiring]_vars

\* --------------------------------------------------------- construction
\* Before a constructor has returned there is no instance: size = 0.
NoInstance ==
    /\ size = 0 /\ hand = 0
    /\ clock_keys = ClearedKeys(0) /\ clock_refs = ClearedRefs(0)
    /\ data = EmptyDict
    /\ evictions = 0 /\ hits = 0 /\ misses = 0 /\ lookups = 0
    /\ gets = 0 /\ found = 0 /\ scenario = -1
    /\ timeout = None /\ now = 0
    /\ cache = EmptyDict /\ default_timeout = None
    /\ StepIdle

InitConstruct ==
    /\ NoInstance
    /\ last = Call("new", "", None, None, FALSE)

\* Mutant of ValidSize: only negative sizes are refused.
ValidSizeNonNegative(n) == n >= 0

\* assert size >= 1, 'size should be at least 1'
ValidSize(n) == n >= 1

\* assert timeout > 0, 'timeout should be positive'
ValidTimeout(t) == t > 0

\* ClockCache(n); a failed assert raises AssertionError and no instance exists
Construct(n) ==
    /\ size = 0
    /\ IF ValidSize(n)
       THEN /\ size' = n
            /\ hand' = 0
            /\ clock_keys' = ClearedKeys(n)
            /\ clock_refs' = ClearedRefs(n)
            /\ scenario' = 0
            /\ last' = Call("init", "ClockCache", n, None, FALSE)
       ELSE /\ last' = Call("init", "ClockCache", n, None, TRUE)
            /\ UNCHANGED <<size, hand, clock_keys, clock_refs, scenario>>
    /\ UNCHANGED <<data, evictions, hits, misses, lookups, gets, found, timeout,
                   now, expiringVars, stepVars>>

\* ExpiringClockCache(n, t)
ConstructExpiringClock(n, t) ==
    /\ size = 0
    /\ IF ValidSize(n) /\ ValidTimeout(t)
       THEN /\ size' = n
            /\ timeout' = t
            /\ hand' = 0
            /\ clock_keys' = ClearedKeys(n)
            /\ clock_refs' = ClearedRefs(n)
            /\ last' = Call("init", "ExpiringClockCache", n, t, FALSE)
       ELSE /\ last' = Call("init", "ExpiringClockCache", n, t, TRUE)
            /\ UNCHANGED <<size, timeout, hand, clock_keys, clock_refs>>
    /\ UNCHANGED <<data, evictions, hits, misses, lookups, gets, found, scenario,
                   now, expiringVars, stepVars>>

NextConstruct ==
    \/ \E n \in (-1)..MaxSize : Construct(n)
    \/ \E n \in (-1)..MaxSize, t \in (-1)..MaxTimeout : ConstructExpiringClock(n, t)
    \/ (size >= 1 /\ timeout = None /\ Next)
    \/ (size >= 1 /\ timeout # None /\ NextExpiringClock)

SpecConstruct == InitConstruct /\ [][NextConstruct]_vars

\* ------------------------------------------- the loop of put, step by step
\* One put of a new key running alone (the lock held, no other thread), from
\* the entry of its while loop: any size, hand and reference bits.  The loop
\* reads none of the other fields.
InitSweep ==
    /\ size \in 1..MaxSweepSize
    /\ hand \in 0..(size - 1)
    /\ clock_refs \in [0..(size - 1) -> BOOLEAN]
    /\ clock_keys = ClearedKeys(size)
    /\ data = EmptyDict
    /\ evictions = 0 /\ hits = 0 /\ misses = 0 /\ lookups = 0
    /\ last = Call("init", "", None, None, FALSE)
    /\ gets = 0 /\ found = 0 /\ scenario = -1
    /\ timeout = None /\ now = 0
    /\ cache = EmptyDict /\ default_timeout = None
    /\ sweep = [pc |-> "loop", hand |-> hand, count |-> 0,
                visits |-> [p \in 0..(size - 1) |-> 0], forced |-> FALSE,
                refs0 |-> clock_refs]
    /\ lock = Free
    /\ thr = [t \in Threads |-> IdleThread]
    /\ OthersIdle

\* One iteration that finds the bit set: lines 117-123.
SweepAdvance ==
    /\ sweep.pc = "loop"
    /\ clock_refs[sweep.hand]
    /\ LET h1 == NextHand(sweep.hand, size)
           c1 == sweep.count + 1
           r1 == ClearRef(clock_refs, sweep.hand)
       IN  /\ clock_refs' = IF ForceClear(c1, size) THEN ClearRef(r1, h1) ELSE r1
           /\ sweep' = [sweep EXCEPT !.hand = h1, !.count = c1,
                                     !.visits[sweep.hand] = @ + 1,
                                     !.forced = ForceClear(c1, size)]
    /\ UNCHANGED <<size, hand, clock_keys, data, evictions, hits, misses, lookups,
                   last, gets, found, scenario, timeout, now, expiringVars, lock, thr, otherVars>>

\* The iteration that finds the bit clear and installs the key: lines 124-135.
SweepSettle(key, val) ==
    /\ sweep.pc = "loop"
    /\ ~clock_refs[sweep.hand]
    /\ LET old_key == clock_keys[sweep.hand]
       IN  /\ evictions' = evictions + (IF Evicted(data, old_key) THEN 1 ELSE 0)
           /\ clock_keys' = [clock_keys EXCEPT ![sweep.hand] = key]
           /\ clock_refs' = [clock_refs EXCEPT ![sweep.hand] = TRUE]
           /\ data' = DictSet(EvictOld(data, old_key), key,
                              [pos |-> sweep.hand, val |-> val])
           /\ hand' = NextHand(sweep.hand, size)
    /\ sweep' = [sweep EXCEPT !.pc = "done", !.visits[sweep.hand] = @ + 1,
                              !.forced = FALSE]
    /\ last' = Call("put", key, val, None, FALSE)
    /\ UNCHANGED <<size, hits, misses, lookups, gets, found, scenario, timeout, now,
                   expiringVars, lock, thr, otherVars>>

NextSweep ==
    \/ SweepAdvance
    \/ \E key \in Keys : \E val \in ValsFor(key) : SweepSettle(key, val)

SpecSweep == InitSweep /\ [][NextSweep]_vars

\* ------------------------------------- sequential runs with a stepped put
\* One caller works on a ClockCache of up to MaxRingSize slots: gets of
\* resident keys and puts of a key that is not resident, the put's loop stepped through so that `sweep` keeps the hand and the reference
\* bits the put started from.  The caller takes its keys in the order of
\* KeyNames: a put stores the first name that is not resident.
KeyNames == <<"a", "b", "c", "d", "e", "f", "g", "h", "i", "j">>
FreshKey(d, n) ==
    KeyNames[CHOOSE i \in 1..(n + 1) :
                 /\ KeyNames[i] \notin DOMAIN d
                 /\ \A j \in 1..(i - 1) : KeyNames[j] \in DOMAIN d]

InitRing ==
    /\ size \in 1..MaxRingSize
    /\ hand = 0
    /\ clock_keys = ClearedKeys(size)
    /\ clock_refs = ClearedRefs(size)
    /\ data = EmptyDict
    /\ evictions = 0 /\ hits = 0 /\ misses = 0 /\ lookups = 0
    /\ last = Call("init", "", None, None, FALSE)
    /\ gets = 0 /\ found = 0 /\ scenario = -1
    /\ timeout = None /\ now = 0
    /\ cache = EmptyDict /\ default_timeout = None
    /\ StepIdle

\* put(key, val) of a key that is not resident reaches its loop: lines 105-114
RingPutBegin ==
    /\ sweep.pc # "loop"
    /\ evictions < MaxRingEvictions
    /\ ~Resident(data, FreshKey(data, size))
    /\ sweep' = [pc |-> "loop", hand |-> hand, count |-> 0,
                 visits |-> [p \in 0..(size - 1) |-> 0], forced |-> FALSE,
                 refs0 |-> clock_refs]
    /\ UNCHANGED <<clockVars, last, now, expiringVars, lock, thr, otherVars>>

NextRing ==
    \/ RingPutBegin
    \/ SweepAdvance
    \/ SweepSettle(FreshKey(data, size), 1)
    \/ (sweep.pc # "loop" /\ \E key \in DOMAIN data : Get(key, None))

SpecRing == InitRing /\ [][NextRing]_vars

\* ------------------------------------------- ClockCache shared by threads
\* Threads call get, put, invalidate and clear on one ClockCache.  A step is
\* one access of a thread to a field other threads can reach at that moment;
\* `x += 1` outside the lock is a read followed by a write.  Statements that
\* touch only fields guarded by the lock (hand, clock_keys, evictions) ride on
\* the neighbouring step.  A thread that is "idle" keeps which operation it
\* called last and how the call ended, and for get the key it asked for.
\* Both threads call get and put; t1 alone calls invalidate and t2 alone
\* calls clear.
ThreadKeys == {"a", "b"}
\* The value threads store under a key, and the default they pass to get.
ThreadVal(key) == IF key = "a" THEN 1 ELSE 3
ThreadDefault == -1
\* The threads that call invalidate.
Invalidators == {"t1"}
\* The threads that call clear.
Clearers == {"t2"}

cacheVars == <<size, hand, clock_keys, clock_refs, data, evictions, hits, misses,
               lookups>>
threadFrame == <<last, gets, found, scenario, timeout, now, expiringVars, sweep,
                otherVars>>

InitThreads ==
    /\ size \in 1..MaxThreadSize
    /\ hand = 0
    /\ clock_keys = ClearedKeys(size)
    /\ clock_refs = ClearedRefs(size)
    /\ data = EmptyDict
    /\ evictions = 0 /\ hits = 0 /\ misses = 0 /\ lookups = 0
    /\ last = Call("init", "", None, None, FALSE)
    /\ gets = 0 /\ found = 0 /\ scenario = -1
    /\ timeout = None /\ now = 0
    /\ cache = EmptyDict /\ default_timeout = None
    /\ StepIdle

\* The record of a thread entering a call, and of one leaving it.
InCall(op, key, arg, pc) ==
    [IdleThread EXCEPT !.op = op, !.key = key, !.arg = arg, !.pc = pc]
Returned(r, ret, raised) ==
    [IdleThread EXCEPT !.op = r.op, !.key = IF r.op = "get" THEN r.key ELSE "",
                       !.ret = ret, !.raised = raised]

\* The body of put or clear: from the lock's acquisition to its release.
InBody(t) == thr[t].op \in {"put", "clear"} /\ thr[t].pc # "idle"

\* Mutant of CanAcquire: the lock is taken whether or not it is held.
CanAcquireAlways(l) == TRUE

\* `with self.lock:` blocks until the lock is free
CanAcquire(l) == l = Free

\* ---- get (no lock); `cap` bounds the counters: a thread reads a counter
\* only while it is below cap
\* self.lookups += 1, the read
Get94Read(t, key, default, cap) ==
    /\ thr[t].pc = "idle"
    /\ lookups < cap
    /\ thr' = [thr EXCEPT ![t] = [InCall("get", key, default, "g94") EXCEPT
                                      !.tmp = lookups]]
    /\ UNCHANGED <<cacheVars, lock, threadFrame>>

\* self.lookups += 1, the write
Get94Write(t) ==
    /\ thr[t].pc = "g94"
    /\ lookups' = thr[t].tmp + 1
    /\ thr' = [thr EXCEPT ![t].pc = "g96"]
    /\ UNCHANGED <<size, hand, clock_keys, clock_refs, data, evictions, hits, misses,
                   lock, threadFrame>>

\* pos, val = self.data[key], or KeyError
Get96(t) ==
    /\ thr[t].pc = "g96"
    /\ thr' = IF thr[t].key \in DOMAIN data
              THEN [thr EXCEPT ![t].pc = "g97r", ![t].pos = data[thr[t].key].pos,
                               ![t].ret = data[thr[t].key].val]
              ELSE [thr EXCEPT ![t].pc = "g99r"]
    /\ UNCHANGED <<cacheVars, lock, threadFrame>>

\* self.hits += 1, the read and the write
Get97Read(t, cap) ==
    /\ thr[t].pc = "g97r"
    /\ hits < cap
    /\ thr' = [thr EXCEPT ![t].pc = "g97w", ![t].tmp = hits]
    /\ UNCHANGED <<cacheVars, lock, threadFrame>>

Get97Write(t) ==
    /\ thr[t].pc = "g97w"
    /\ hits' = thr[t].tmp + 1
    /\ thr' = [thr EXCEPT ![t].pc = "g101"]
    /\ UNCHANGED <<size, hand, clock_keys, clock_refs, data, evictions, misses, lookups,
                   lock, threadFrame>>

\* self.misses += 1, the read; then the write and `return default`
Get99Read(t, cap) ==
    /\ thr[t].pc = "g99r"
    /\ misses < cap
    /\ thr' = [thr EXCEPT ![t].pc = "g99w", ![t].tmp = misses]
    /\ UNCHANGED <<cacheVars, lock, threadFrame>>

Get99Write(t) ==
    /\ thr[t].pc = "g99w"
    /\ misses' = thr[t].tmp + 1
    /\ thr' = [thr EXCEPT ![t] = Returned(thr[t], thr[t].arg, FALSE)]
    /\ UNCHANGED <<size, hand, clock_keys, clock_refs, data, evictions, hits, lookups,
                   lock, threadFrame>>

\* self.clock_refs[pos] = True (IndexError outside the list); return val
Get101(t) ==
    /\ thr[t].pc = "g101"
    /\ IF thr[t].pos \in DOMAIN clock_refs
       THEN /\ clock_refs' = [clock_refs EXCEPT ![thr[t].pos] = TRUE]
            /\ thr' = [thr EXCEPT ![t] = Returned(thr[t], thr[t].ret, FALSE)]
       ELSE /\ clock_refs' = clock_refs
            /\ thr' = [thr EXCEPT ![t] = Returned(thr[t], None, TRUE)]
    /\ UNCHANGED <<size, hand, clock_keys, data, evictions, hits, misses, lookups,
                   lock, threadFrame>>

\* ---- put (under the lock)
\* with self.lock:
Put105(t, key) ==
    /\ thr[t].pc = "idle"
    /\ evictions < MaxThreadEvictions
    /\ CanAcquire(lock)
    /\ lock' = t
    /\ thr' = [thr EXCEPT ![t] = InCall("put", key, ThreadVal(key), "p106")]
    /\ UNCHANGED <<cacheVars, threadFrame>>

\* entry = self.data.get(key); resident: NameError at line 109, the with
\* statement releases the lock; else hand = self.hand, count = 0
Put106(t) ==
    /\ thr[t].pc = "p106"
    /\ IF Resident(data, thr[t].key)
       THEN /\ lock' = Free
            /\ thr' = [thr EXCEPT ![t] = Returned(thr[t], None, TRUE)]
       ELSE /\ lock' = lock
            /\ thr' = [thr EXCEPT ![t].pc = "p117", ![t].hand = hand, ![t].count = 0]
    /\ UNCHANGED <<cacheVars, threadFrame>>

\* ref = self.clock_refs[hand]
Put117(t) ==
    /\ thr[t].pc = "p117"
    /\ thr' = [thr EXCEPT ![t].pc = IF clock_refs[thr[t].hand] THEN "p119" ELSE "p126"]
    /\ UNCHANGED <<cacheVars, lock, threadFrame>>

\* self.clock_refs[hand] = False; hand = (hand + 1) % self.size; count += 1
Put119(t) ==
    /\ thr[t].pc = "p119"
    /\ clock_refs' = ClearRef(clock_refs, thr[t].hand)
    /\ thr' = [thr EXCEPT ![t].hand = NextHand(thr[t].hand, size),
                          ![t].count = thr[t].count + 1,
                          ![t].pc = IF ForceClear(thr[t].count + 1, size)
                                    THEN "p123" ELSE "p117"]
    /\ UNCHANGED <<size, hand, clock_keys, data, evictions, hits, misses, lookups,
                   lock, threadFrame>>

\* self.clock_refs[hand] = False, the tie-breaker
Put123(t) ==
    /\ thr[t].pc = "p123"
    /\ clock_refs' = ClearRef(clock_refs, thr[t].hand)
    /\ thr' = [thr EXCEPT ![t].pc = "p117"]
    /\ UNCHANGED <<size, hand, clock_keys, data, evictions, hits, misses, lookups,
                   lock, threadFrame>>

\* old_key = self.clock_keys[hand]; old_entry = self.data.pop(old_key, _MARKER);
\* self.evictions += 1 if there was one; self.clock_keys[hand] = key
Put126(t) ==
    /\ thr[t].pc = "p126"
    /\ LET old_key == clock_keys[thr[t].hand]
       IN  /\ data' = EvictOld(data, old_key)
           /\ evictions' = evictions + (IF Evicted(data, old_key) THEN 1 ELSE 0)
    /\ clock_keys' = [clock_keys EXCEPT ![thr[t].hand] = thr[t].key]
    /\ thr' = [thr EXCEPT ![t].pc = "p131"]
    /\ UNCHANGED <<size, hand, clock_refs, hits, misses, lookups, lock, threadFrame>>

\* self.clock_refs[hand] = True
Put131(t) ==
    /\ thr[t].pc = "p131"
    /\ clock_refs' = [clock_refs EXCEPT ![thr[t].hand] = TRUE]
    /\ thr' = [thr EXCEPT ![t].pc = "p132"]
    /\ UNCHANGED <<size, hand, clock_keys, data, evictions, hits, misses, lookups,
                   lock, threadFrame>>

\* Mutant of StoredPos: the entry records the position after the hand moved on.
StoredPosAfter(h) == h + 1

\* the position in `self.data[key] = hand, val`
StoredPos(h) == h

\* self.data[key] = hand, val; self.hand = (hand + 1) % self.size; the lock
\* is released
Put132(t) ==
    /\ thr[t].pc = "p132"
    /\ data' = DictSet(data, thr[t].key,
                       [pos |-> StoredPos(thr[t].hand), val |-> thr[t].arg])
    /\ hand' = NextHand(thr[t].hand, size)
    /\ lock' = Free
    /\ thr' = [thr EXCEPT ![t] = Returned(thr[t], None, FALSE)]
    /\ UNCHANGED <<size, clock_keys, clock_refs, evictions, hits, misses, lookups,
                   threadFrame>>

\* ---- clear (under the lock)
\* with self.lock: self.hand = 0; self.clock_keys = [_MARKER] * self.size
Clear82(t) ==
    /\ t \in Clearers
    /\ thr[t].pc = "idle"
    /\ CanAcquire(lock)
    /\ lock' = t
    /\ hand' = 0
    /\ clock_keys' = ClearedKeys(size)
    /\ thr' = [thr EXCEPT ![t] = InCall("clear", "", None, "c85")]
    /\ UNCHANGED <<size, clock_refs, data, evictions, hits, misses, lookups,
                   threadFrame>>

\* self.clock_refs = [False] * self.size
Clear85(t) ==
    /\ thr[t].pc = "c85"
    /\ clock_refs' = ClearedRefs(size)
    /\ thr' = [thr EXCEPT ![t].pc = "c86"]
    /\ UNCHANGED <<size, hand, clock_keys, data, evictions, hits, misses, lookups,
                   lock, threadFrame>>

\* self.data = {}; self.evictions = 0
Clear86(t) ==
    /\ thr[t].pc = "c86"
    /\ data' = EmptyDict
    /\ evictions' = 0
    /\ thr' = [thr EXCEPT ![t].pc = "c89"]
    /\ UNCHANGED <<size, hand, clock_keys, clock_refs, hits, misses, lookups,
                   lock, threadFrame>>

\* self.hits = 0
Clear89(t) ==
    /\ thr[t].pc = "c89"
    /\ hits' = 0
    /\ thr' = [thr EXCEPT ![t].pc = "c90"]
    /\ UNCHANGED <<size, hand, clock_keys, clock_refs, data, evictions, misses, lookups,
                   lock, threadFrame>>

\* self.misses = 0
Clear90(t) ==
    /\ thr[t].pc = "c90"
    /\ misses' = 0
    /\ thr' = [thr EXCEPT ![t].pc = "c91"]
    /\ UNCHANGED <<size, hand, clock_keys, clock_refs, data, evictions, hits, lookups,
                   lock, threadFrame>>

\* self.lookups = 0; the lock is released
Clear91(t) ==
    /\ thr[t].pc = "c91"
    /\ lookups' = 0
    /\ lock' = Free
    /\ thr' = [thr EXCEPT ![t] = Returned(thr[t], None, FALSE)]
    /\ UNCHANGED <<size, hand, clock_keys, clock_refs, data, evictions, hits, misses,
                   threadFrame>>

\* ---- invalidate (no lock)
\* entry = self.data.pop(key, _MARKER)
Invalidate138(t, key) ==
    /\ t \in Invalidators
    /\ thr[t].pc = "idle"
    /\ data' = InvalidatePop(data, key)
    /\ thr' = IF key \in DOMAIN data
              THEN [thr EXCEPT ![t] = [InCall("invalidate", key, None, "i140") EXCEPT
                                           !.pos = data[key].pos]]
              ELSE [thr EXCEPT ![t] = Returned(InCall("invalidate", key, None, "idle"),
                                               None, FALSE)]
    /\ UNCHANGED <<size, hand, clock_keys, clock_refs, evictions, hits, misses, lookups,
                   lock, threadFrame>>

\* self.clock_refs[entry[0]] = False (IndexError outside the list)
Invalidate140(t) ==
    /\ thr[t].pc = "i140"
    /\ IF thr[t].pos \in DOMAIN clock_refs
       THEN /\ clock_refs' = [clock_refs EXCEPT ![thr[t].pos] = FALSE]
            /\ thr' = [thr EXCEPT ![t] = Returned(thr[t], None, FALSE)]
       ELSE /\ clock_refs' = clock_refs
            /\ thr' = [thr EXCEPT ![t] = Returned(thr[t], None, TRUE)]
    /\ UNCHANGED <<size, hand, clock_keys, data, evictions, hits, misses, lookups,
                   lock, threadFrame>>

ThreadStep(t, cap) ==
    \/ \E key \in ThreadKeys : Get94Read(t, key, ThreadDefault, cap)
    \/ Get94Write(t) \/ Get96(t) \/ Get97Read(t, cap) \/ Get97Write(t)
    \/ Get99Read(t, cap) \/ Get99Write(t) \/ Get101(t)
    \/ \E key \in ThreadKeys : Put105(t, key)
    \/ Put106(t) \/ Put117(t) \/ Put119(t) \/ Put123(t) \/ Put126(t)
    \/ Put131(t) \/ Put132(t)
    \/ Clear82(t) \/ Clear85(t) \/ Clear86(t) \/ Clear89(t) \/ Clear90(t)
    \/ Clear91(t)
    \/ \E key \in ThreadKeys : Invalidate138(t, key)
    \/ Invalidate140(t)

NextThreads == \E t \in Threads : ThreadStep(t, MaxThreadLookups)

SpecThreads == InitThreads /\ [][NextThreads]_vars

\* The same threads, with room for a counter to be incremented twice while
\* another increment of it is pending.
NextCounters == \E t \in Threads : ThreadStep(t, MaxRacedLookups)

SpecCounters == InitThreads /\ [][NextCounters]_vars

\* ------------------------------------------------ amqp.py: AmqpConsumer
\* No cache is in play: the fields of the caches rest.
CacheIdle ==
    /\ size = 0 /\ hand = 0
    /\ clock_keys = ClearedKeys(0) /\ clock_refs = ClearedRefs(0)
    /\ data = EmptyDict
    /\ evictions = 0 /\ hits = 0 /\ misses = 0 /\ lookups = 0
    /\ last = Call("init", "", None, None, FALSE)
    /\ gets = 0 /\ found = 0 /\ scenario = -1
    /\ timeout = None
    /\ cache = EmptyDict /\ default_timeout = None
    /\ sweep = SweepIdle /\ lock = Free
    /\ thr = [t \in Threads |-> IdleThread]

cacheFrame == <<clockVars, last, expiringVars, sweep, lock, thr>>

\* start_pipeline has spawned its workers and consumes.  Messages are
\* numbered in the order the broker delivers them; `pending` is the message
\* on_message has queued and not yet acknowledged (0: none); `outcome` is how
\* handle(message) ended for each message.
Workers == {"w1", "w2"}
Messages == 1..MaxMessages

InitAmqp ==
    /\ CacheIdle /\ now = 0
    /\ pool = NoPool /\ bucket = NoBucket
    /\ consumer = [consuming |-> TRUE, delivered |-> 0, pending |-> 0,
                   thread_queue |-> <<>>, acked |-> {},
                   outcome |-> [m \in Messages |-> "none"],
                   workers |-> [w \in Workers |->
                                    [pc |-> "poll", msg |-> 0, should_stop |-> FALSE]]]

\* on_message: thread_queue.put_nowait((ch, method, props, message)), or
\* QueueFull, which is logged
OnMessagePut ==
    /\ consumer.consuming /\ consumer.pending = 0
    /\ consumer.delivered < MaxMessages
    /\ LET m == consumer.delivered + 1
       IN  consumer' =
               IF Len(consumer.thread_queue) < MaxQueue
               THEN [consumer EXCEPT !.delivered = m, !.pending = m,
                                     !.thread_queue = Append(@, m)]
               ELSE [consumer EXCEPT !.delivered = m]
    /\ UNCHANGED <<cacheFrame, now, pool, bucket>>

\* on_message: ch.basic_ack(delivery_tag=method.delivery_tag)
AckNow(acked, m) == acked \cup {m}

OnMessageAck ==
    /\ consumer.pending # 0
    /\ consumer' = [consumer EXCEPT !.acked = AckNow(@, consumer.pending),
                                    !.pending = 0]
    /\ UNCHANGED <<cacheFrame, now, pool, bucket>>

\* Worker.work: the stop test and thread_queue.get_nowait() (QueueEmpty: the
\* worker sleeps and polls again)
WorkerPoll(w) ==
    /\ consumer.workers[w].pc = "poll"
    /\ IF consumer.workers[w].should_stop
       THEN consumer' = [consumer EXCEPT !.workers[w].pc = "stopped"]
       ELSE /\ consumer.thread_queue # <<>>
            /\ consumer' = [consumer EXCEPT
                                !.thread_queue = Tail(@),
                                !.workers[w].pc = "handle",
                                !.workers[w].msg = Head(consumer.thread_queue)]
    /\ UNCHANGED <<cacheFrame, now, pool, bucket>>

\* Worker.work: handle(message) returns, or raises and the error is logged;
\* the acknowledgment in the finally branch is commented out
WorkerHandle(w, ok) ==
    /\ consumer.workers[w].pc = "handle"
    /\ consumer' = [consumer EXCEPT
                        !.outcome[consumer.workers[w].msg] =
                            IF ok THEN "ok" ELSE "raised",
                        !.workers[w].pc = "poll",
                        !.workers[w].msg = 0]
    /\ UNCHANGED <<cacheFrame, now, pool, bucket>>

\* stop_pipeline: stop_consuming(), then worker.stop() for every worker
StopPipeline ==
    /\ consumer.consuming
    /\ consumer' = [consumer EXCEPT
                        !.consuming = FALSE,
                        !.workers = [w \in Workers |->
                                         [@[w] EXCEPT !.should_stop = TRUE]]]
    /\ UNCHANGED <<cacheFrame, now, pool, bucket>>

NextAmqp ==
    \/ OnMessagePut
    \/ OnMessageAck
    \/ \E w \in Workers : WorkerPoll(w)
    \/ \E w \in Workers, ok \in BOOLEAN : WorkerHandle(w, ok)
    \/ StopPipeline

SpecAmqp == InitAmqp /\ [][NextAmqp]_vars

\* ------------------------------------- connection_pool.py: ConnectionPool
\* The pool is a LifoQueue of max_connections places, written bottom first;
\* None marks a place whose connection is still to be made, connections are
\* numbered from 1 in the order make_connection creates them.  `callers` is
\* what each thread holds and where it stands inside get_connection.
Idle(q) == {q[i] : i \in DOMAIN q} \ {None}

\* Mutant of GetIndex: queue_class is a FIFO queue.
GetIndexFifo(q) == 1

\* LifoQueue._get pops the item put last
GetIndex(q) == Len(q)

Without(q, i) == [j \in 1..(Len(q) - 1) |-> IF j < i THEN q[j] ELSE q[j + 1]]

\* __init__ and reset: the queue is filled with None
InitPool ==
    /\ CacheIdle /\ now = 0
    /\ consumer = NoConsumer /\ bucket = NoBucket
    /\ \E n \in 1..MaxConnections :
           pool = [max_connections |-> n,
                   pool |-> [i \in 1..n |-> None],
                   connections |-> 0,
                   callers |-> [t \in Threads |->
                                    [pc |-> "idle", held |-> {}, raised |-> FALSE]]]

\* get_connection: self.pool.get(block=True, timeout=self.timeout) returns
\* an item; a connection is returned at once, None sends the caller on to
\* make_connection
PoolGet(t) ==
    /\ pool.callers[t].pc = "idle"
    /\ pool.pool # <<>>
    /\ LET i == GetIndex(pool.pool)
           connection == pool.pool[i]
       IN  pool' = [pool EXCEPT
                        !.pool = Without(@, i),
                        !.callers[t] =
                            IF connection = None
                            THEN [@ EXCEPT !.pc = "make", !.raised = FALSE]
                            ELSE [@ EXCEPT !.held = @ \cup {connection},
                                           !.raised = FALSE]]
    /\ UNCHANGED <<cacheFrame, now, consumer, bucket>>

\* get_connection: the queue stayed empty for the whole timeout, Empty
\* becomes ConnectionError
PoolGetTimeout(t) ==
    /\ pool.callers[t].pc = "idle"
    /\ pool.pool = <<>>
    /\ pool' = [pool EXCEPT !.callers[t].raised = TRUE]
    /\ UNCHANGED <<cacheFrame, now, consumer, bucket>>

\* get_connection: connection = self.make_connection(); return connection
PoolMake(t) ==
    /\ pool.callers[t].pc = "make"
    /\ pool' = [pool EXCEPT
                    !.connections = @ + 1,
                    !.callers[t] = [@ EXCEPT !.pc = "idle",
                                             !.held = @ \cup {pool.connections + 1}]]
    /\ UNCHANGED <<cacheFrame, now, consumer, bucket>>

\* release(connection) of a connection the caller holds: put_nowait, and on
\* Full the connection is dropped
PoolRelease(t, connection) ==
    /\ pool.callers[t].pc = "idle"
    /\ connection \in pool.callers[t].held
    /\ pool' = [pool EXCEPT
                    !.pool = IF Len(@) < pool.max_connections
                             THEN Append(@, connection)
                             ELSE @,
                    !.callers[t] = [@ EXCEPT !.held = @ \ {connection},
                                             !.raised = FALSE]]
    /\ UNCHANGED <<cacheFrame, now, consumer, bucket>>

NextPool ==
    \/ \E t \in Threads : PoolGet(t)
    \/ \E t \in Threads : PoolGetTimeout(t)
    \/ \E t \in Threads : PoolMake(t)
    \/ \E t \in Threads, connection \in 1..MaxConnections :
           PoolRelease(t, connection)

SpecPool == InitPool /\ [][NextPool]_vars

\* ------------------------------------- rate_limit/token_bucket.py: TokenBucket
\* `now` is time.time() in ticks of 1/TicksPerSecond seconds.  The bucket is
\* built at Epoch, late enough after time 0 for the first refill to fill it.
\* `asked` is the last consume: its count, the numerator count - tokens of
\* the wait it returned (the wait is short / rate seconds, 0: it returned
\* 0), and the time of the call.
Epoch == TicksPerSecond * MaxCapacity

InitBucket ==
    /\ CacheIdle /\ now = Epoch
    /\ consumer = NoConsumer /\ pool = NoPool
    /\ \E capacity \in 1..MaxCapacity, rate \in 1..MaxRate :
           bucket = [capacity |-> capacity, rate |-> rate,
                     tokens |-> 0, last_run_time |-> 0,
                     asked |-> [count |-> 0, short |-> 0, at |-> 0]]

\* int(time.time())
Current(t) == t \div TicksPerSecond

\* _update_tokens: the tokens after the refill
Refilled(b, t) ==
    LET time_passed == Current(t) - b.last_run_time
        tokens == b.tokens + time_passed * b.rate
    IN  IF tokens > b.capacity THEN b.capacity ELSE tokens

\* time passes
BucketTick ==
    /\ now < Epoch + MaxTicks
    /\ now' = now + 1
    /\ UNCHANGED <<cacheFrame, consumer, pool, bucket>>

\* get_tokens
GetTokens ==
    /\ bucket' = [bucket EXCEPT !.tokens = Refilled(bucket, now),
                                !.last_run_time = Current(now)]
    /\ UNCHANGED <<cacheFrame, now, consumer, pool>>

\* consume(count)
Consume(count) ==
    /\ LET tokens == Refilled(bucket, now)
       IN  bucket' =
               IF tokens >= count
               THEN [bucket EXCEPT
                         !.tokens = tokens - count,
                         !.last_run_time = Current(now),
                         !.asked = [count |-> count, short |-> 0, at |-> now]]
               ELSE [bucket EXCEPT
                         !.tokens = tokens,
                         !.last_run_time = Current(now),
                         !.asked = [count |-> count, short |-> count - tokens,
                                    at |-> now]]
    /\ UNCHANGED <<cacheFrame, now, consumer, pool>>

NextBucket ==
    \/ BucketTick
    \/ GetTokens
    \/ \E count \in 1..(MaxCapacity + 1) : Consume(count)

SpecBucket == InitBucket /\ [][NextBucket]_vars

\* ------------------------------------------------------------ properties
\* The slot the next put of a new key would settle on.
NextSlot == Sweep(clock_refs, hand, 0, size).hand

\* C1: the number of keys resident in the index never exceeds the capacity.
CapacityBound == Cardinality(DOMAIN data) <= size

\* More distinct keys than slots were put: the cache is full and has evicted.
CapacityBoundWitness ==
    /\ size = 2 /\ evictions = 1
    /\ Cardinality(DOMAIN data) = size
    /\ last.op = "put" /\ ~last.raised

\* C2: right after put(k, v), get(k) returns v, whether or not k was resident.
HitAfterPut ==
    last.op = "put" =>
        \A default \in DefaultArgs : GetValue(data, last.key, default) = last.val

\* C3: a call of invalidate(k) leaves k absent, and an absent k stays absent
\* through every call that is not put(k, ...): get(k, X) returns X meanwhile.
MissAfterInvalidate ==
    [][ /\ last'.op = "invalidate" =>
               \A default \in DefaultArgs :
                   GetValue(data', last'.key, default) = default
        /\ \A k \in Keys :
               (k \notin DOMAIN data /\ ~(last'.op = "put" /\ last'.key = k)) =>
                   \A default \in DefaultArgs : GetValue(data', k, default) = default
        /\ (last'.op = "get" /\ last'.key \notin DOMAIN data) =>
               last'.ret = last'.val
      ]_vars

\* k was put, then invalidated (its label is still on a slot, nothing was
\* evicted), and a later get(k, -1) returned -1.
MissAfterInvalidateWitness ==
    /\ last.op = "get" /\ last.val = -1 /\ last.ret = -1
    /\ evictions = 0
    /\ last.key \notin DOMAIN data
    /\ \E p \in 0..(size - 1) : clock_keys[p] = last.key

\* C4: put(k, v2) on a resident k stores v2 in k's slot, sets that slot's
\* reference bit and returns normally.
UpdateInPlace ==
    [][ (last'.op = "put" /\ last'.key \in DOMAIN data) =>
            /\ ~last'.raised
            /\ last'.key \in DOMAIN data'
            /\ data'[last'.key] = [pos |-> data[last'.key].pos, val |-> last'.val]
            /\ clock_refs'[data[last'.key].pos]
      ]_vars

\* C5: put(k, v2) on a resident k leaves evictions, the hand, the resident keys
\* and every other key's slot and value as they were, and with them the slot
\* the next put of a new key settles on.
UpdateHasNoEvictionEffect ==
    [][ (last'.op = "put" /\ last'.key \in DOMAIN data) =>
            /\ evictions' = evictions
            /\ hand' = hand
            /\ DOMAIN data' = DOMAIN data
            /\ \A k \in (DOMAIN data) \ {last'.key} : data'[k] = data[k]
            /\ clock_keys' = clock_keys
            /\ \A p \in 0..(size - 1) :
                   p # data[last'.key].pos => clock_refs'[p] = clock_refs[p]
            /\ NextSlot' = NextSlot
      ]_vars

\* put was called on a resident key of a full cache of two slots.
UpdateHasNoEvictionEffectWitness ==
    /\ last.op = "put" /\ last.raised
    /\ last.key \in DOMAIN data
    /\ size = 2 /\ Cardinality(DOMAIN data) = 2

\* C6: capacity 2, put(a,1), put(b,2), get(a), put(c,3): a and c are
\* retrievable, b is not, and exactly one eviction was counted.
EvictionScenario ==
    (size = 2 /\ scenario = Len(Scenario)) =>
        /\ GetValue(data, "a", None) = 1
        /\ GetValue(data, "c", None) = 3
        /\ GetValue(data, "b", None) = None
        /\ evictions = 1

EvictionScenarioWitness ==
    /\ size = 2 /\ scenario = Len(Scenario)
    /\ last = Call("put", "c", 3, None, FALSE)

\* C7: right after clear() the index is empty, every slot is unoccupied with
\* its reference bit false, the hand is 0, all four counters are 0, and get on
\* any key returns the default.
ClearResetsFully ==
    last.op = "clear" =>
        /\ data = EmptyDict
        /\ \A p \in 0..(size - 1) : clock_keys[p] = MARKER /\ ~clock_refs[p]
        /\ hand = 0
        /\ hits = 0 /\ misses = 0 /\ lookups = 0 /\ evictions = 0
        /\ \A k \in Keys, default \in DefaultArgs : GetValue(data, k, default) = default

ClearResetsFullyWitness ==
    /\ last.op = "clear"
    /\ scenario = -1
    /\ DOMAIN data = {}

\* C8: hits, misses and lookups count the gets that found the key, those that
\* did not, and all of them; so lookups = hits + misses.
CounterCorrectness ==
    /\ hits = found
    /\ misses = gets - found
    /\ lookups = gets
    /\ lookups = hits + misses

\* Both a hit and a miss were counted, with a put in between.
CounterCorrectnessWitness ==
    /\ hits = 1 /\ misses = 1
    /\ last.op = "get"
    /\ DOMAIN data # {}

\* C9: get(k, X) on an entry put at time T with timeout t returns the stored
\* value while now < T + t and X from T + t on (T + t being the expiry that put
\* stored).
TTLExpiry ==
    \A k \in DOMAIN cache, default \in DefaultArgs :
        ExpiringGetValue(cache, k, default, now) =
            IF now < cache[k].expire_time THEN cache[k].value ELSE default

\* C10: no call of get, put, invalidate or clear raises.
NoOperationRaises == ~last.raised

\* C12: a key is in the index exactly if some slot stores it, and the position
\* the index records for it is that slot.
IndexSlotAgreement ==
    \A k \in Keys :
        /\ (k \in DOMAIN data) <=> (\E p \in 0..(size - 1) : clock_keys[p] = k)
        /\ (k \in DOMAIN data) => clock_keys[data[k].pos] = k

\* C13: at most one slot of the ring stores any given key.
NoDuplicateOccupancy ==
    \A p, q \in 0..(size - 1) :
        (p # q /\ clock_keys[p] # MARKER) => clock_keys[p] # clock_keys[q]

\* C14: 0 <= hand < capacity in every state, after clear and after every put,
\* whether it returned or raised.
HandValid == hand \in 0..(size - 1)

\* A put into the last slot wrapped the hand to 0, and a put that raised
\* followed it.
HandValidWitness ==
    /\ size = 2 /\ hand = 0
    /\ last.op = "put" /\ last.raised
    /\ \E k \in DOMAIN data : data[k].pos = size - 1

\* C18: a put(k, v) of a non-resident k that selects slot p leaves slot p
\* storing k with its reference bit true, the index mapping k to (p, v), the
\* hand at (p + 1) mod capacity, and evictions grown by 1 if the key slot p
\* held was in the index just before and by 0 otherwise.
NewKeyInstall ==
    [][ (last'.op = "put" /\ last'.key \notin DOMAIN data) =>
            /\ last'.key \in DOMAIN data'
            /\ LET p == data'[last'.key].pos
               IN  /\ p \in 0..(size - 1)
                   /\ clock_keys'[p] = last'.key
                   /\ clock_refs'[p]
                   /\ data'[last'.key] = [pos |-> p, val |-> last'.val]
                   /\ hand' = (p + 1) % size
                   /\ evictions' = evictions +
                          (IF clock_keys[p] \in DOMAIN data THEN 1 ELSE 0)
      ]_vars

\* A put installed a new key in the last slot of a full cache of two slots and
\* evicted the key that was there.
NewKeyInstallWitness ==
    /\ size = 2 /\ evictions = 1
    /\ last.op = "put" /\ ~last.raised
    /\ last.key \in DOMAIN data /\ data[last.key].pos = 1
    /\ hand = 0

\* C11: a constructor call with size < 1, or (expiring variant) timeout <= 0,
\* raises and leaves no instance; every other call returns one, so every
\* instance has capacity >= 1 and, in the expiring variant, timeout > 0.
ConstructionFailsFast ==
    /\ (last.op = "init" /\ last.key = "ClockCache") =>
           (last.raised <=> last.val < 1)
    /\ (last.op = "init" /\ last.key = "ExpiringClockCache") =>
           (last.raised <=> (last.val < 1 \/ last.ret <= 0))
    /\ (last.op = "init" /\ last.raised) => NoInstance
    /\ (last.op = "init" /\ ~last.raised) => size = last.val
    /\ (last.op # "new" /\ ~(last.op = "init" /\ last.raised)) =>
           /\ size >= 1
           /\ DOMAIN clock_keys = 0..(size - 1)
           /\ DOMAIN clock_refs = 0..(size - 1)
           /\ timeout = None \/ timeout > 0

\* ExpiringClockCache was refused for its timeout alone.
ConstructionFailsFastWitness ==
    /\ last.op = "init" /\ last.raised
    /\ last.key = "ExpiringClockCache"
    /\ last.val >= 1 /\ last.ret = 0

\* The stepped loop follows the path Sweep computes from its start.
SweepAgrees ==
    sweep.pc = "loop" =>
        LET here == Sweep(clock_refs, sweep.hand, sweep.count, size)
            whole == Sweep(sweep.refs0, hand, 0, size)
        IN  here = whole

\* C19: the loop of put ends: the hand is advanced at most capacity times
\* (each iteration that does not end the loop advances it) and no slot is
\* examined more than twice.
SweepTerminates ==
    sweep.pc \in {"loop", "done"} =>
        /\ sweep.count <= size
        /\ \A p \in 0..(size - 1) : sweep.visits[p] <= 2

\* A put over a ring of one slot with its bit set examined that slot twice.
SweepTerminatesWitness ==
    /\ sweep.pc = "done" /\ size = 1
    /\ sweep.count = 1 /\ sweep.visits[0] = 2

\* C20: the tie-breaking clear is made only once strictly more than
\* capacity / 2 slots were swept, and while the count is <= capacity / 2 the
\* only bit an iteration clears is that of the slot it examined.
ForceClearAboveHalf ==
    [][ sweep'.pc = "loop" =>
            /\ sweep'.forced => 2 * sweep'.count > size
            /\ 2 * sweep'.count <= size =>
                   \A p \in (0..(size - 1)) \ {sweep.hand} :
                       clock_refs'[p] = clock_refs[p]
      ]_vars

\* C20 as amended: the tie-breaking clear is made only once at least
\* capacity / 2 slots were swept (count >= capacity / 2), and while the count
\* is < capacity / 2 the only bit an iteration clears is that of the slot it
\* examined.
ForceClearFromHalf ==
    [][ sweep'.pc = "loop" =>
            /\ sweep'.forced => 2 * sweep'.count >= size
            /\ 2 * sweep'.count < size =>
                   \A p \in (0..(size - 1)) \ {sweep.hand} :
                       clock_refs'[p] = clock_refs[p]
      ]_vars

\* The tie-breaker ran when exactly capacity / 2 slots had been swept.
ForceClearFromHalfWitness ==
    /\ sweep.pc = "loop" /\ sweep.forced
    /\ size = 4 /\ sweep.count = 2

\* C15: at most one thread is inside the body of put or clear, the lock is
\* held by exactly the thread that is inside, and it is free again whenever
\* no thread is inside: every way out of a body, the NameError of put
\* included, releases it.
MutualExclusion ==
    /\ \A t1, t2 \in Threads : InBody(t1) /\ InBody(t2) => t1 = t2
    /\ \A t \in Threads : InBody(t) <=> lock = t
    /\ lock = Free <=> \A t \in Threads : ~InBody(t)

\* After a put of t1 raised, t2 took the lock.
MutualExclusionWitness ==
    /\ thr["t1"].op = "put" /\ thr["t1"].pc = "idle" /\ thr["t1"].raised
    /\ lock = "t2" /\ InBody("t2")

\* C16: a get running beside put, invalidate and clear never raises, sets a
\* reference bit only at a position inside the ring, and returns the default
\* or the value stored under the key it asked for, never that of another key.
LockFreeGetSafe ==
    \A t \in Threads :
        /\ thr[t].op = "get" /\ thr[t].pc = "idle" =>
               /\ ~thr[t].raised
               /\ thr[t].ret \in {ThreadDefault, ThreadVal(thr[t].key)}
        /\ thr[t].pc \in {"g97r", "g97w", "g101"} =>
               /\ thr[t].pos \in 0..(size - 1)
               /\ thr[t].ret = ThreadVal(thr[t].key)

\* While t2 was inside clear, past the reset of the bits and of the index, a
\* get of t1 ended with a hit and set a bit of the fresh ring.
LockFreeGetSafeWitness ==
    /\ thr["t2"].pc = "c89"
    /\ thr["t1"].op = "get" /\ thr["t1"].pc = "idle"
    /\ thr["t1"].ret = ThreadVal(thr["t1"].key)
    /\ \E p \in DOMAIN clock_refs : clock_refs[p]

\* C17: while no thread is inside clear, no step lowers hits, misses, lookups
\* or evictions.
CountersMonotone ==
    [][ (\A t \in Threads : ~(thr[t].op = "clear" /\ thr[t].pc # "idle")) =>
            /\ hits' >= hits
            /\ misses' >= misses
            /\ lookups' >= lookups
            /\ evictions' >= evictions
      ]_vars

\* A stepped put of a new key into a full cache settles, with at least one
\* resident entry whose reference bit was clear when the put began.
FullPutSettles ==
    /\ sweep.pc = "loop" /\ sweep'.pc = "done"
    /\ Cardinality(DOMAIN data) = size
    /\ \E k \in DOMAIN data : ~sweep.refs0[data[k].pos]

\* How far ahead of position h the first clear bit of refs lies.
FirstClear(refs, h, n) ==
    CHOOSE j \in 0..(n - 1) :
        /\ ~refs[(h + j) % n]
        /\ \A i \in 0..(j - 1) : refs[(h + i) % n]

\* The number of swept slots at which the tie-breaker runs: capacity / 2,
\* rounded up.
HalfRing(n) == (n + 1) \div 2

\* C21: a put into a full cache that holds an entry whose bit was clear at
\* the start of the put evicts only an entry whose bit was clear at the
\* start of the put.
EvictsOnlyUnreferenced ==
    [][ FullPutSettles =>
            \A k \in (DOMAIN data) \ (DOMAIN data') : ~sweep.refs0[data[k].pos]
      ]_vars

\* C21 as amended: such a put evicts the first entry ahead of the hand whose
\* bit was clear at the start of the put when that entry lies at most
\* capacity / 2 (rounded up) slots ahead; otherwise it evicts the entry
\* capacity / 2 (rounded up) slots ahead of the hand, whatever its bit.
EvictsFirstClearOrHalf ==
    [][ FullPutSettles =>
            LET j == FirstClear(sweep.refs0, hand, size)
                p == (hand + (IF j <= HalfRing(size) THEN j ELSE HalfRing(size))) % size
            IN  /\ (DOMAIN data) \ (DOMAIN data') = {clock_keys[p]}
                /\ j <= HalfRing(size) => ~sweep.refs0[p]
      ]_vars

\* A put into a full ring took the slot of an entry whose bit was set when
\* the put began, while a slot whose bit was clear was left alone.
EvictsFirstClearOrHalfWitness ==
    /\ sweep.pc = "done" /\ last.op = "put"
    /\ Cardinality(DOMAIN data) = size /\ evictions >= 1
    /\ \A p \in 0..(size - 1) : clock_keys[p] # MARKER
    /\ sweep.refs0[sweep.hand]
    /\ \E q \in 0..(size - 1) : q # sweep.hand /\ ~sweep.refs0[q]

\* C22: invalidate(k) of a resident k removes k from the index and clears the
\* reference bit of k's slot, leaving evictions, hits, misses, lookups, hand
\* and the entry of every other key as they were; invalidate(k) of an absent
\* k changes nothing of the cache.
InvalidateFrame ==
    [][ last'.op = "invalidate" =>
            LET k == last'.key
            IN  IF k \in DOMAIN data
                THEN /\ k \notin DOMAIN data'
                     /\ ~clock_refs'[data[k].pos]
                     /\ \A p \in (0..(size - 1)) \ {data[k].pos} :
                            clock_refs'[p] = clock_refs[p]
                     /\ DOMAIN data' = (DOMAIN data) \ {k}
                     /\ \A x \in DOMAIN data' : data'[x] = data[x]
                     /\ UNCHANGED <<size, hand, evictions, hits, misses, lookups>>
                ELSE UNCHANGED <<size, hand, clock_keys, clock_refs, data,
                                 evictions, hits, misses, lookups>>
      ]_vars

\* A key that had been read was invalidated beside another resident key.
InvalidateFrameWitness ==
    /\ last.op = "invalidate" /\ last.key \notin DOMAIN data
    /\ \E p \in 0..(size - 1) : clock_keys[p] = last.key /\ ~clock_refs[p]
    /\ data # EmptyDict /\ hits >= 1

\* C23: in an ExpiringClockCache a get of the key that the call before it
\* put, made before the entry's expiry, is a hit: it does not raise, returns
\* the value put, adds one to hits and lookups and sets the bit of the key's
\* slot.
ExpiringClockFreshHit ==
    [][ (last.op = "put" /\ last'.op = "get" /\ last'.key = last.key
         /\ now < now + timeout) =>
            /\ ~last'.raised
            /\ last'.ret = last.val
            /\ hits' = hits + 1 /\ lookups' = lookups + 1 /\ misses' = misses
            /\ \E p \in 0..(size - 1) : clock_keys'[p] = last.key /\ clock_refs'[p]
      ]_vars

\* C24: when an invalidate(k) running beside puts clears its reference bit,
\* the slot is still the one k was removed from: no put has relabelled it
\* with another key (a clear may have emptied it) and no other key's entry
\* lives in it.
InvalidateClearsOwnSlot ==
    [][ \A t \in Threads :
            (thr[t].pc = "i140" /\ thr'[t].pc = "idle") =>
                /\ clock_keys[thr[t].pos] \in {thr[t].key, MARKER}
                /\ \A k \in (DOMAIN data) \ {thr[t].key} : data[k].pos # thr[t].pos
      ]_vars

\* A call of put that stored a new key: the step from data to data'.
PutInstalled ==
    /\ last'.op = "put" /\ ~last'.raised
    /\ last'.key \notin DOMAIN data /\ last'.key \in DOMAIN data'

\* C25: a put that installs a new key into slot p leaves every key that was
\* resident in another slot resident, with the value and position it had.
PutKeepsOtherSlots ==
    [][ PutInstalled =>
            \A k \in DOMAIN data :
                data[k].pos # data'[last'.key].pos =>
                    k \in DOMAIN data' /\ data'[k] = data[k]
      ]_vars

\* C26: a put of a new key removes a resident key, or counts an eviction,
\* only if the index held capacity keys just before the put.
EvictsOnlyWhenFull ==
    [][ (PutInstalled /\ ((DOMAIN data) \ (DOMAIN data') # {} \/ evictions' # evictions)) =>
            Cardinality(DOMAIN data) = size
      ]_vars

\* C26 as amended: a put of a new key removes a resident key, and then counts
\* exactly one eviction, only if no slot is left that was never used since
\* construction or the last clear; a slot freed by invalidate does not keep a
\* resident entry from being evicted.
EvictsOnlyWhenAllUsed ==
    [][ PutInstalled =>
            /\ ((DOMAIN data) \ (DOMAIN data') # {} \/ evictions' # evictions) =>
                   \A p \in 0..(size - 1) : clock_keys[p] # MARKER
            /\ evictions' = evictions + Cardinality((DOMAIN data) \ (DOMAIN data'))
      ]_vars

\* A put evicted although the index held fewer keys than the cache has slots.
EvictsOnlyWhenAllUsedWitness ==
    /\ last.op = "put" /\ ~last.raised
    /\ evictions = 1
    /\ Cardinality(DOMAIN data) < size

\* C27: the number of keys in the index is zero after construction and after
\* clear, together with evictions, and every other call changes it by
\* (1 if a put installed a new key) - (the rise of evictions) - (1 if an
\* invalidate removed a present key); summed over a run since the last clear,
\* installs - evictions - removals is the number of keys in the index.
EntryConservation ==
    [][ IF last'.op = "clear"
        THEN Cardinality(DOMAIN data') = 0 /\ evictions' = 0
        ELSE Cardinality(DOMAIN data') - Cardinality(DOMAIN data) =
                 (IF PutInstalled THEN 1 ELSE 0)
                 - (evictions' - evictions)
                 - (IF last'.op = "invalidate" /\ last'.key \in DOMAIN data
                    THEN 1 ELSE 0)
      ]_vars

\* After an eviction and the removal of a present key by invalidate (its
\* slot keeps the label) keys are still in the index.
EntryConservationWitness ==
    /\ evictions = 1
    /\ data # EmptyDict
    /\ \E p \in 0..(size - 1) :
           clock_keys[p] # MARKER /\ clock_keys[p] \notin DOMAIN data

\* C28: a message is acknowledged to the broker only after handle(message)
\* has returned without raising: no message whose handler raised, that waits
\* in the thread queue or that a worker has not finished is acknowledged.
AckOnlyAfterHandled ==
    \A m \in consumer.acked : consumer.outcome[m] = "ok"

\* The connections callers hold, and the soundness of the pool's books: no
\* more than max_connections connections were ever created, no connection is
\* held by two callers or both held and idle in the pool, and when
\* max_connections connections are held the pool is empty and nobody is about
\* to create one (a further get_connection can only time out).
HeldBy(p) == UNION {p.callers[t].held : t \in Threads}

PoolSound(p) ==
    /\ p.connections <= p.max_connections
    /\ \A t, u \in Threads :
           t # u => p.callers[t].held \cap p.callers[u].held = {}
    /\ HeldBy(p) \cap Idle(p.pool) = {}
    /\ Cardinality(HeldBy(p)) = p.max_connections =>
           /\ p.pool = <<>>
           /\ \A t \in Threads : p.callers[t].pc = "idle"

\* C29 as stated: whenever get_connection creates a connection
\* (make_connection, line 78) no created connection is idle in the pool; the
\* connections created never exceed max_connections, no connection has two
\* holders, and with max_connections checked out a get_connection raises
\* instead of creating.
CreatesOnlyWhenNoneIdle ==
    [][/\ (\E t \in Threads : /\ pool.callers[t].pc = "make"
                              /\ pool'.callers[t].pc = "idle")
           => Idle(pool.pool) = {}
       /\ PoolSound(pool')
       /\ Cardinality(HeldBy(pool)) = pool.max_connections
           => pool'.connections = pool.connections]_vars

\* C29 amended: whenever get_connection takes None from the pool (line 71),
\* which is what sends it to make_connection, no created connection is idle
\* in the pool; the connections created never exceed max_connections, no
\* connection has two holders, and with max_connections checked out a
\* get_connection raises instead of creating.
TakesNoneOnlyWhenNoneIdle ==
    [][/\ (\E t \in Threads : /\ pool.callers[t].pc = "idle"
                              /\ pool'.callers[t].pc = "make")
           => Idle(pool.pool) = {}
       /\ PoolSound(pool')
       /\ Cardinality(HeldBy(pool)) = pool.max_connections
           => pool'.connections = pool.connections]_vars

\* Two connections were created on demand, all are checked out, and a
\* further get_connection has raised ConnectionError.
TakesNoneOnlyWhenNoneIdleWitness ==
    /\ pool.max_connections >= 2
    /\ Cardinality(HeldBy(pool)) = pool.max_connections
    /\ \E t \in Threads : pool.callers[t].raised

\* A step of consume: it records a new call, or repeats the last call at the
\* same instant and takes tokens again.
ConsumeStep ==
    \/ bucket'.asked # bucket.asked
    \/ bucket'.tokens < bucket.tokens

\* The wait the last consume returned has elapsed: (now - at) seconds are at
\* least short / rate.
WaitElapsed ==
    /\ bucket.asked.short > 0
    /\ (now - bucket.asked.at) * bucket.rate
           >= bucket.asked.short * TicksPerSecond

\* C30: consume(count) returns 0 and deducts exactly count tokens when the
\* refilled bucket holds at least count; otherwise it deducts nothing and
\* returns a positive wait, and the same consume(count) issued next, once that
\* wait has elapsed, returns 0; the tokens stay within 0..capacity.
ConsumeWaitSuffices ==
    [][ConsumeStep =>
          LET count == bucket'.asked.count
              tokens == Refilled(bucket, now)
          IN  /\ tokens >= count =>
                     /\ bucket'.asked.short = 0
                     /\ bucket'.tokens = tokens - count
              /\ tokens < count =>
                     /\ bucket'.asked.short > 0
                     /\ bucket'.tokens = tokens
              /\ bucket'.tokens \in 0..bucket.capacity
              /\ (WaitElapsed /\ count = bucket.asked.count) =>
                     bucket'.asked.short = 0]_vars

====
